---- MODULE Spec2Model ----
(***************************************************************************)
(* Model of the GeoJSON -> WKT converters of                               *)
(* notebooks/search_slc_grd_raw.py: geojson_to_polygon_wkt and             *)
(* geojson_to_shrunk_polygon_wkt.                                          *)
(*                                                                         *)
(* Python values are tagged records:                                       *)
(*   None            [t |-> "None"]                                        *)
(*   int             [t |-> "int",   n |-> k, d |-> 1]                     *)
(*   float           [t |-> "float", n |-> p, d |-> q]  (p/q in lowest     *)
(*                                                      terms, q > 0)      *)
(*   str             [t |-> "str",   s |-> "..."]                          *)
(*   list            [t |-> "list",  v |-> <<...>>]                        *)
(* A missing dictionary key reads as None (dict.get).                      *)
(*                                                                         *)
(* Floats are modelled by exact rationals.  The model's inputs are small   *)
(* integers and halves, so every numerator and denominator stays far below *)
(* 2^31; binary64 rounding (an error of about 1e-16 relative) is not       *)
(* modelled, and the 15-significant-digit formatting of "%.15g" is         *)
(* computed on the exact value.                                            *)
(***************************************************************************)
EXTENDS Integers, Sequences, FiniteSets, TLC

VARIABLES
    geometry,         \* the geometry argument (a dict: type, coordinates)
    on_multipolygon,  \* the on_multipolygon keyword argument
    shrink_factor,    \* the shrink_factor keyword argument
    calls             \* the calls made so far on these arguments, in order: the
                      \* function called (op), its outcome (res) and, for the
                      \* shrunk converter, its local shrunk_rings

vars == <<geometry, on_multipolygon, shrink_factor, calls>>

(***************************************************************************)
(* Bounds of the model.                                                    *)
(***************************************************************************)
MaxCalls == 2
MaxRingLen == 5
MaxFactor == 2

(***************************************************************************)
(* Python values.                                                          *)
(***************************************************************************)
None == [t |-> "None"]

PyList(s) == [t |-> "list", v |-> s]

PyStr(s) == [t |-> "str", s |-> s]

Abs(a) == IF a < 0 THEN -a ELSE a

RECURSIVE GCD(_, _)
GCD(a, b) == IF b = 0 THEN a ELSE GCD(b, a % b)

Reduced(ty, p, q, g) == [t |-> ty, n |-> p \div g, d |-> q \div g]

\* the number p/q of type ty, in lowest terms with a positive denominator
Num(ty, p, q) == Reduced(ty, IF q < 0 THEN -p ELSE p, Abs(q), GCD(Abs(p), Abs(q)))

PyInt(k) == [t |-> "int", n |-> k, d |-> 1]

PyFloat(p, q) == Num("float", p, q)

IsList(o) == o.t = "list"

\* isinstance(v, (int, float))
IsNumber(o) == o.t \in {"int", "float"}

\* Python truthiness of the values of the model: None, 0, 0.0, "" and [] are false
Truthy(o) ==
    CASE o.t = "None" -> FALSE
      [] o.t = "list" -> Len(o.v) > 0
      [] o.t = "str" -> o.s # ""
      [] OTHER -> o.n # 0

\* int op int is an int; anything with a float is a float
ResTy(a, b) == IF a.t = "int" /\ b.t = "int" THEN "int" ELSE "float"

NumAdd(a, b) == Num(ResTy(a, b), a.n * b.d + b.n * a.d, a.d * b.d)

NumSub(a, b) == Num(ResTy(a, b), a.n * b.d - b.n * a.d, a.d * b.d)

NumMul(a, b) == Num(ResTy(a, b), a.n * b.n, a.d * b.d)

\* true division (b # 0): always a float
NumDiv(a, b) == Num("float", a.n * b.d, a.d * b.n)

\* Python ==, <, <= on numbers compare values, whatever the types
NumEq(a, b) == a.n * b.d = b.n * a.d

NumLt(a, b) == a.n * b.d < b.n * a.d

NumLe(a, b) == a.n * b.d <= b.n * a.d

NumAbs(a) == [a EXCEPT !.n = Abs(a.n)]

(***************************************************************************)
(* _fmt_num: str(n) for an int, "%.15g" % float(n) otherwise.              *)
(***************************************************************************)
SigDigits == 15

RECURSIVE NDigits(_)
NDigits(k) == IF k < 10 THEN 1 ELSE 1 + NDigits(k \div 10)

PushDigit(dg, rest) == [ds |-> <<dg>> \o rest.ds, r |-> rest.r]

\* the first cnt significant digits of the fraction r/q (0 <= r < q) and the
\* remainder left; the leading zeros of 0.000ddd are not significant
RECURSIVE FracDigits(_, _, _, _)
FracStep(dg, r2, q, cnt, sig) ==
    PushDigit(dg, FracDigits(r2, q, IF sig THEN cnt - 1 ELSE cnt, sig))

FracDigits(r, q, cnt, started) ==
    IF cnt = 0 \/ r = 0 THEN [ds |-> <<>>, r |-> r]
    ELSE FracStep((r * 10) \div q, (r * 10) % q, q, cnt, started \/ (r * 10) \div q # 0)

\* add one unit in the last place of a digit sequence; carry = 1 on overflow
RECURSIVE Incr(_)
IncrCarry(up) == [ds |-> up.ds \o <<0>>, carry |-> up.carry]

Incr(ds) ==
    IF ds = <<>> THEN [ds |-> <<>>, carry |-> 1]
    ELSE IF ds[Len(ds)] < 9
    THEN [ds |-> [ds EXCEPT ![Len(ds)] = ds[Len(ds)] + 1], carry |-> 0]
    ELSE IncrCarry(Incr(SubSeq(ds, 1, Len(ds) - 1)))

RECURSIVE StripZeros(_)
StripZeros(ds) ==
    IF ds # <<>> /\ ds[Len(ds)] = 0 THEN StripZeros(SubSeq(ds, 1, Len(ds) - 1)) ELSE ds

RECURSIVE DigitsStr(_)
DigitsStr(ds) == IF ds = <<>> THEN "" ELSE ToString(ds[1]) \o DigitsStr(Tail(ds))

FracText(fs) == IF fs = <<>> THEN "" ELSE "." \o DigitsStr(fs)

FmtText(neg, ip, up) ==
    (IF neg THEN "-" ELSE "") \o ToString(ip + up.carry) \o FracText(StripZeros(up.ds))

\* round half up on the digit after the last one kept
FmtRound(neg, ip, fr, q) ==
    FmtText(neg, ip, IF 2 * fr.r >= q THEN Incr(fr.ds) ELSE [ds |-> fr.ds, carry |-> 0])

FmtParts(neg, ip, r, q) ==
    FmtRound(neg, ip,
             FracDigits(r, q, IF ip = 0 THEN SigDigits ELSE SigDigits - NDigits(ip), ip # 0),
             q)

\* "%.15g" of p/q, for 1e-4 <= |p/q| < 1e15 or p = 0 (fixed notation)
Fmt15g(p, q) == FmtParts(p < 0, Abs(p) \div q, Abs(p) % q, q)

\* float(n) of a value that is not an int: a TypeError for None and for a list
fmt_num(c) ==
    IF c.t = "int" THEN [ok |-> TRUE, s |-> ToString(c.n)]
    ELSE IF c.t = "float" THEN [ok |-> TRUE, s |-> Fmt15g(c.n, c.d)]
    ELSE [ok |-> FALSE, exc |-> "TypeError"]

(***************************************************************************)
(* Outcomes of a call: a returned string, or a raised exception with the   *)
(* message of its raise statement ("" for an exception of the interpreter).*)
(***************************************************************************)
Return(s) == [ok |-> TRUE, wkt |-> s]

Raise(exc, msg) == [ok |-> FALSE, exc |-> exc, msg |-> msg]

MsgMissingType == "Geometry missing 'type'"
MsgPolygonList == "Polygon 'coordinates' must be a list of rings"
MsgMultiNonEmpty == "MultiPolygon 'coordinates' must be a non-empty list of polygons"
MsgMultiMany == "MultiPolygon has multiple polygons; set on_multipolygon='first' to pick the first"
MsgMultiStructure == "Invalid MultiPolygon structure: expected list of polygons (list of rings)"
MsgUnsupported == "Unsupported geometry type for polygon output"
MsgCoordinate == "Invalid coordinate; expected at least [x, y]"
MsgRingsNonEmpty == "Polygon 'coordinates' must be a non-empty list of rings"
MsgFactor == "shrink_factor must be > 0"
MsgOuterRing == "Outer ring must be a list of at least 3 coordinates"
MsgEachRing == "Each ring must be a list of at least 3 coordinates"

(***************************************************************************)
(* _is_3d_coords: True iff some list of the nesting is non-empty, holds    *)
(* only numbers and has 3 or more of them.  (The shrunk converter defines  *)
(* an identical copy, lines 157-171.)                                      *)
(***************************************************************************)
\* a slip that tests len(o) > 3
RECURSIVE is_3d_coords_gt3(_)
is_3d_coords_gt3(o) ==
    /\ IsList(o)
    /\ IF Len(o.v) > 0 /\ \A i \in 1..Len(o.v) : IsNumber(o.v[i])
       THEN Len(o.v) > 3
       ELSE \E i \in 1..Len(o.v) : is_3d_coords_gt3(o.v[i])

RECURSIVE is_3d_coords(_)
is_3d_coords(o) ==
    /\ IsList(o)
    /\ IF Len(o.v) > 0 /\ \A i \in 1..Len(o.v) : IsNumber(o.v[i])
       THEN Len(o.v) >= 3
       ELSE \E i \in 1..Len(o.v) : is_3d_coords(o.v[i])

(***************************************************************************)
(* _fmt_coord, _fmt_coord_list, _fmt_ring.  Each yields [ok, s] or the     *)
(* exception the interpreter raises (slicing or iterating None or a        *)
(* number is a TypeError).                                                 *)
(***************************************************************************)
\* str.join over a generator: the text of an item (h), then the rest (r); the
\* first item that raises ends the join
Join(h, sep, r) ==
    IF ~h.ok THEN h
    ELSE IF ~r.ok THEN r
    ELSE [ok |-> TRUE, s |-> h.s \o sep \o r.s]

Sep(sep, i, seq) == IF i = Len(seq) THEN "" ELSE sep

Empty == [ok |-> TRUE, s |-> ""]

RECURSIVE JoinNums(_, _)
JoinNums(cs, i) ==
    IF i > Len(cs) THEN Empty
    ELSE Join(fmt_num(cs[i]), Sep(" ", i, cs), JoinNums(cs, i + 1))

\* " ".join(_fmt_num(c) for c in coord[:3])
fmt_coord(coord) ==
    IF ~IsList(coord) THEN [ok |-> FALSE, exc |-> "TypeError"]
    ELSE JoinNums(SubSeq(coord.v, 1, IF Len(coord.v) < 3 THEN Len(coord.v) ELSE 3), 1)

RECURSIVE JoinCoords(_, _)
JoinCoords(cs, i) ==
    IF i > Len(cs) THEN Empty
    ELSE Join(fmt_coord(cs[i]), Sep(", ", i, cs), JoinCoords(cs, i + 1))

\* ", ".join(_fmt_coord(c) for c in coords)
fmt_coord_list(coords) ==
    IF ~IsList(coords) THEN [ok |-> FALSE, exc |-> "TypeError"]
    ELSE JoinCoords(coords.v, 1)

\* f"({_fmt_coord_list(ring)})"
Paren(r) == IF r.ok THEN [ok |-> TRUE, s |-> "(" \o r.s \o ")"] ELSE r

fmt_ring(ring) == Paren(fmt_coord_list(ring))

RECURSIVE JoinRings(_, _)
JoinRings(rs, i) ==
    IF i > Len(rs) THEN Empty
    ELSE Join(fmt_ring(rs[i]), Sep(", ", i, rs), JoinRings(rs, i + 1))

PolygonReturn(dim, body) ==
    IF body.ok THEN Return("POLYGON" \o dim \o " (" \o body.s \o ")")
    ELSE Raise(body.exc, "")

\* f"POLYGON{dim} ({', '.join(_fmt_ring(r) for r in rings)})", rings a list
polygon_text(rings) ==
    PolygonReturn(IF is_3d_coords(rings) THEN " Z" ELSE "", JoinRings(rings.v, 1))

(***************************************************************************)
(* geojson_to_polygon_wkt(geometry, on_multipolygon)                       *)
(***************************************************************************)
\* the branch "if gtype == 'Polygon'"
plain_polygon(g) ==
    LET rings == g.coordinates
    IN  IF ~IsList(rings) THEN Raise("ValueError", MsgPolygonList)
        ELSE polygon_text(rings)

\* a slip that serializes the last part instead of the first
plain_multipolygon_last(g, policy) ==
    LET polys == g.coordinates
    IN  IF ~IsList(polys) \/ ~Truthy(polys)
        THEN Raise("ValueError", MsgMultiNonEmpty)
        ELSE IF policy = "error" /\ Len(polys.v) # 1
        THEN Raise("ValueError", MsgMultiMany)
        ELSE LET chosen == polys.v[Len(polys.v)]
             IN  IF ~IsList(chosen) THEN Raise("ValueError", MsgMultiStructure)
                 ELSE polygon_text(chosen)

\* the branch "if gtype == 'MultiPolygon'"
plain_multipolygon(g, policy) ==
    LET polys == g.coordinates
    IN  IF ~IsList(polys) \/ ~Truthy(polys)
        THEN Raise("ValueError", MsgMultiNonEmpty)
        ELSE IF policy = "error" /\ Len(polys.v) # 1
        THEN Raise("ValueError", MsgMultiMany)
        ELSE LET chosen == polys.v[1]
             IN  IF ~IsList(chosen) THEN Raise("ValueError", MsgMultiStructure)
                 ELSE polygon_text(chosen)

\* a slip that takes every type other than MultiPolygon for a Polygon
geojson_to_polygon_wkt_any_type(g, policy) ==
    IF ~Truthy(g.type) THEN Raise("ValueError", MsgMissingType)
    ELSE IF g.type = PyStr("MultiPolygon") THEN plain_multipolygon(g, policy)
    ELSE plain_polygon(g)

geojson_to_polygon_wkt(g, policy) ==
    IF ~Truthy(g.type) THEN Raise("ValueError", MsgMissingType)
    ELSE IF g.type = PyStr("Polygon") THEN plain_polygon(g)
    ELSE IF g.type = PyStr("MultiPolygon") THEN plain_multipolygon(g, policy)
    ELSE Raise("ValueError", MsgUnsupported)

(***************************************************************************)
(* _outer_ring_centroid_xy(ring), ring a list.  Yields [ok, cx, cy] or the *)
(* exception of p[0], p[1]: a TypeError when p is None or a number, an     *)
(* IndexError when p is a list of fewer than 2 components.                 *)
(***************************************************************************)
Zero == PyFloat(0, 1)

\* the exception of (p[0], p[1]), or "" when both subscripts succeed
SubscriptExc(p) ==
    IF ~IsList(p) THEN "TypeError"
    ELSE IF Len(p.v) < 2 THEN "IndexError"
    ELSE ""

\* [(p[0], p[1]) for p in pts]: the first failing p decides
RECURSIVE FirstSubscriptExc(_)
FirstSubscriptExc(pts) ==
    IF pts = <<>> THEN ""
    ELSE IF SubscriptExc(pts[1]) # "" THEN SubscriptExc(pts[1])
    ELSE FirstSubscriptExc(Tail(pts))

RECURSIVE SumComp(_, _)
SumComp(pts, k) ==
    IF pts = <<>> THEN PyInt(0) ELSE NumAdd(pts[1].v[k], SumComp(Tail(pts), k))

\* (sum(xs) / len(xs), sum(ys) / len(ys)) over all the points of the ring
MeanXY(pts) ==
    [ok |-> TRUE,
     cx |-> NumDiv(SumComp(pts, 1), PyInt(Len(pts))),
     cy |-> NumDiv(SumComp(pts, 2), PyInt(Len(pts)))]

\* A += cross; Cx += (x0 + x1) * cross; Cy += (y0 + y1) * cross
Accumulate(acc, sx, sy, cross) ==
    [A |-> NumAdd(acc.A, cross),
     Cx |-> NumAdd(acc.Cx, NumMul(sx, cross)),
     Cy |-> NumAdd(acc.Cy, NumMul(sy, cross))]

\* one pass of the loop over the pair (x0, y0), (x1, y1)
Edge(acc, x0, y0, x1, y1) ==
    Accumulate(acc, NumAdd(x0, x1), NumAdd(y0, y1), NumSub(NumMul(x0, y1), NumMul(x1, y0)))

\* a slip that loops over range(n) and wraps round: an edge from the last point
\* back to the first
RECURSIVE Shoelace_cyclic(_, _, _)
Shoelace_cyclic(pts, i, acc) ==
    IF i > Len(pts) THEN acc
    ELSE Shoelace_cyclic(pts, i + 1,
                         Edge(acc, pts[i].v[1], pts[i].v[2],
                              pts[(i % Len(pts)) + 1].v[1], pts[(i % Len(pts)) + 1].v[2]))

\* the loop "for i in range(n - 1)" from index i on, with the accumulators acc
RECURSIVE Shoelace(_, _, _)
Shoelace(pts, i, acc) ==
    IF i > Len(pts) - 1 THEN acc
    ELSE Shoelace(pts, i + 1,
                  Edge(acc, pts[i].v[1], pts[i].v[2], pts[i + 1].v[1], pts[i + 1].v[2]))

\* abs(A) < 1e-15: the model's numbers have denominators below 2^31, so a
\* nonzero |A| is at least 2^-31 and the test is A = 0
BelowEps(A) == A.n = 0

\* Cx /= (6.0 * A); Cy /= (6.0 * A)
Divided(acc, sixA) == [ok |-> TRUE, cx |-> NumDiv(acc.Cx, sixA), cy |-> NumDiv(acc.Cy, sixA)]

\* lines 211-218, A the halved sum
AreaCentroid(pts, acc, A) ==
    IF BelowEps(NumAbs(A)) THEN MeanXY(pts)
    ELSE Divided(acc, NumMul(PyFloat(6, 1), A))

Halved(pts, acc) == AreaCentroid(pts, acc, NumMul(acc.A, PyFloat(1, 2)))

CentroidOf(pts, exc) ==
    IF exc # "" THEN Raise(exc, "")
    ELSE IF Len(pts) < 3
    THEN IF pts = <<>> THEN [ok |-> TRUE, cx |-> Zero, cy |-> Zero]
         ELSE MeanXY(pts)
    ELSE Halved(pts, Shoelace(pts, 1, [A |-> Zero, Cx |-> Zero, Cy |-> Zero]))

outer_ring_centroid_xy(ring) == CentroidOf(ring.v, FirstSubscriptExc(ring.v))

(***************************************************************************)
(* _scale_ring_about_xy_centroid(ring, cx, cy, s), ring a list.            *)
(***************************************************************************)
\* xs = cx + s * (x - cx)
Scaled(x, c, s) == NumAdd(c, NumMul(s, NumSub(x, c)))

\* one pass of "for p in ring": [xs, ys] or [xs, ys, z]
ScalePoint(p, cx, cy, s) ==
    IF Len(p.v) >= 3
    THEN PyList(<<Scaled(p.v[1], cx, s), Scaled(p.v[2], cy, s), p.v[3]>>)
    ELSE PyList(<<Scaled(p.v[1], cx, s), Scaled(p.v[2], cy, s)>>)

ValidPoint(p) == IsList(p) /\ Len(p.v) >= 2

\* a slip that compares only the X of the first and last input points
ClosedInput_x_only(pts) ==
    /\ Len(pts) >= 2
    /\ Len(pts[1].v) >= 2 /\ Len(pts[Len(pts)].v) >= 2
    /\ NumEq(pts[1].v[1], pts[Len(pts)].v[1])

\* first and last input points have equal X and equal Y
ClosedInput(pts) ==
    /\ Len(pts) >= 2
    /\ Len(pts[1].v) >= 2 /\ Len(pts[Len(pts)].v) >= 2
    /\ NumEq(pts[1].v[1], pts[Len(pts)].v[1])
    /\ NumEq(pts[1].v[2], pts[Len(pts)].v[2])

\* a slip that closes an open ring by appending a copy of its first point
Closure_appends(pts, out) ==
    IF ClosedInput(pts) THEN [out EXCEPT ![Len(out)] = out[1]] ELSE Append(out, out[1])

\* out[-1] = out[0][:] when the input ring is closed
Closure(pts, out) == IF ClosedInput(pts) THEN [out EXCEPT ![Len(out)] = out[1]] ELSE out

scale_ring_about_xy_centroid(ring, cx, cy, s) ==
    IF \E i \in 1..Len(ring.v) : ~ValidPoint(ring.v[i])
    THEN Raise("ValueError", MsgCoordinate)
    ELSE [ok |-> TRUE,
          ring |-> PyList(Closure(ring.v,
                                  [i \in 1..Len(ring.v) |-> ScalePoint(ring.v[i], cx, cy, s)]))]

(***************************************************************************)
(* _shrink_polygon_rings(rings, factor): [ok, rings] or the exception.     *)
(***************************************************************************)
ValidRing(ring) == IsList(ring) /\ Len(ring.v) >= 3

\* out_rings.append(...): the first ring that raises ends the call
AppendRing(h, r) ==
    IF ~h.ok THEN h
    ELSE IF ~r.ok THEN r
    ELSE [ok |-> TRUE, rings |-> <<h.ring>> \o r.rings]

\* the centroid of the ring itself if it has one, (cx, cy) otherwise
OwnCentroid(own, cx, cy) == IF own.ok THEN own ELSE [ok |-> TRUE, cx |-> cx, cy |-> cy]

ScaleAbout(ring, c, s) == scale_ring_about_xy_centroid(ring, c.cx, c.cy, s)

\* a slip that scales every ring about its own centroid
RECURSIVE ScaleRings_own_centroid(_, _, _, _, _)
ScaleRings_own_centroid(rs, i, cx, cy, s) ==
    IF i > Len(rs) THEN [ok |-> TRUE, rings |-> <<>>]
    ELSE IF ~ValidRing(rs[i]) THEN Raise("ValueError", MsgEachRing)
    ELSE AppendRing(ScaleAbout(rs[i], OwnCentroid(outer_ring_centroid_xy(rs[i]), cx, cy), s),
                    ScaleRings_own_centroid(rs, i + 1, cx, cy, s))

\* the loop "for ring in rings" from index i on
RECURSIVE ScaleRings(_, _, _, _, _)
ScaleRings(rs, i, cx, cy, s) ==
    IF i > Len(rs) THEN [ok |-> TRUE, rings |-> <<>>]
    ELSE IF ~ValidRing(rs[i]) THEN Raise("ValueError", MsgEachRing)
    ELSE AppendRing(scale_ring_about_xy_centroid(rs[i], cx, cy, s),
                    ScaleRings(rs, i + 1, cx, cy, s))

\* return out_rings
OutRings(r) == IF r.ok THEN [ok |-> TRUE, rings |-> PyList(r.rings)] ELSE r

\* lines 253-259, c the outcome of _outer_ring_centroid_xy(outer)
ShrinkAbout(rings, c, s) ==
    IF ~c.ok THEN c ELSE OutRings(ScaleRings(rings.v, 1, c.cx, c.cy, s))

\* lines 247-259, for a non-empty list of rings and a factor not caught before
ShrinkValid(rings, factor) ==
    IF ~ValidRing(rings.v[1]) THEN Raise("ValueError", MsgOuterRing)
    ELSE ShrinkAbout(rings, outer_ring_centroid_xy(rings.v[1]), NumDiv(PyFloat(1, 1), factor))

\* a slip that tests factor < 0: a factor of 0 then divides by zero
shrink_polygon_rings_strict(rings, factor) ==
    IF ~Truthy(rings) \/ ~IsList(rings) THEN Raise("ValueError", MsgRingsNonEmpty)
    ELSE IF NumLt(factor, PyInt(0)) THEN Raise("ValueError", MsgFactor)
    ELSE IF factor.n = 0 THEN Raise("ZeroDivisionError", "")
    ELSE ShrinkValid(rings, factor)

shrink_polygon_rings(rings, factor) ==
    IF ~Truthy(rings) \/ ~IsList(rings) THEN Raise("ValueError", MsgRingsNonEmpty)
    ELSE IF NumLe(factor, PyInt(0)) THEN Raise("ValueError", MsgFactor)
    ELSE ShrinkValid(rings, factor)

(***************************************************************************)
(* geojson_to_shrunk_polygon_wkt(geometry, on_multipolygon, shrink_factor) *)
(* ShrunkCall yields the outcome (res) and the value of the local          *)
(* shrunk_rings when the call ends (Unbound if it was never assigned).     *)
(***************************************************************************)
Unbound == [t |-> "unbound"]

\* dim and the return statement, sh the outcome of _shrink_polygon_rings
FormatShrunk(sh) ==
    IF sh.ok THEN [res |-> polygon_text(sh.rings), shrunk_rings |-> sh.rings]
    ELSE [res |-> sh, shrunk_rings |-> Unbound]

\* lines 268-270 and 281-283: shrink, then serialize
ShrinkAndFormat(rings, factor) == FormatShrunk(shrink_polygon_rings(rings, factor))

Fails(e) == [res |-> e, shrunk_rings |-> Unbound]

\* the branch "if gtype == 'MultiPolygon'"
shrunk_multipolygon(g, policy, factor) ==
    LET polys == g.coordinates
    IN  IF ~IsList(polys) \/ ~Truthy(polys)
        THEN Fails(Raise("ValueError", MsgMultiNonEmpty))
        ELSE IF policy = "error" /\ Len(polys.v) # 1
        THEN Fails(Raise("ValueError", MsgMultiMany))
        ELSE LET chosen == polys.v[1]
             IN  IF ~IsList(chosen) THEN Fails(Raise("ValueError", MsgMultiStructure))
                 ELSE ShrinkAndFormat(chosen, factor)

ShrunkCall(g, policy, factor) ==
    IF ~Truthy(g.type) THEN Fails(Raise("ValueError", MsgMissingType))
    ELSE IF g.type = PyStr("Polygon") THEN ShrinkAndFormat(g.coordinates, factor)
    ELSE IF g.type = PyStr("MultiPolygon") THEN shrunk_multipolygon(g, policy, factor)
    ELSE Fails(Raise("ValueError", MsgUnsupported))

geojson_to_shrunk_polygon_wkt(g, policy, factor) == ShrunkCall(g, policy, factor).res

(***************************************************************************)
(* The argument after a call.  A list is a mutable object shared with the  *)
(* caller, so an assignment to one of its items would show in geometry     *)
(* after the call.  The only assignment to an item of a list in the two    *)
(* converters is "out[-1] = out[0][:]" (line 239): its target is out, the  *)
(* list made at line 222 whose items are the lists made at lines 231 and   *)
(* 233, and the value assigned is a copy.  Everything else binds local     *)
(* names, slices (coord[:3] is a copy) or appends to out and out_rings.    *)
(***************************************************************************)
\* a slip that closes the input ring in place: ring[-1] = ring[0][:]
RingAfterClosure_in_place(pts) ==
    IF ClosedInput(pts) THEN [pts EXCEPT ![Len(pts)] = pts[1]] ELSE pts

\* the items of ring after lines 234-239: none is assigned
RingAfterClosure(pts) == pts

\* the list ring after _scale_ring_about_xy_centroid(ring, cx, cy, s) returned
\* or raised (a raise at line 225 comes before line 239)
RingAfterScale(ring) ==
    IF \E i \in 1..Len(ring.v) : ~ValidPoint(ring.v[i]) THEN ring
    ELSE PyList(RingAfterClosure(ring.v))

\* the items of rings after the loop "for ring in rings" from index i on: the
\* loop ends at the first ring that raises
RECURSIVE RingsAfterLoop(_, _)
RingsAfterLoop(rs, i) ==
    IF i > Len(rs) THEN <<>>
    ELSE IF ~ValidRing(rs[i]) THEN SubSeq(rs, i, Len(rs))
    ELSE IF \E j \in 1..Len(rs[i].v) : ~ValidPoint(rs[i].v[j]) THEN SubSeq(rs, i, Len(rs))
    ELSE <<RingAfterScale(rs[i])>> \o RingsAfterLoop(rs, i + 1)

\* the value rings after _shrink_polygon_rings(rings, factor) returned or
\* raised: the loop is reached only past the checks and the centroid
RingsAfterShrink(rings, factor) ==
    IF ~Truthy(rings) \/ ~IsList(rings) THEN rings
    ELSE IF NumLe(factor, PyInt(0)) THEN rings
    ELSE IF ~ValidRing(rings.v[1]) THEN rings
    ELSE IF ~outer_ring_centroid_xy(rings.v[1]).ok THEN rings
    ELSE PyList(RingsAfterLoop(rings.v, 1))

\* polys with its first item replaced
FirstReplaced(polys, chosen) == PyList(<<chosen>> \o Tail(polys.v))

\* the dict geometry after geojson_to_shrunk_polygon_wkt returned or raised
GeometryAfterShrunk(g, policy, factor) ==
    IF ~Truthy(g.type) THEN g
    ELSE IF g.type = PyStr("Polygon")
    THEN [g EXCEPT !.coordinates = RingsAfterShrink(g.coordinates, factor)]
    ELSE IF g.type = PyStr("MultiPolygon")
    THEN IF ~IsList(g.coordinates) \/ ~Truthy(g.coordinates) THEN g
         ELSE IF policy = "error" /\ Len(g.coordinates.v) # 1 THEN g
         ELSE IF ~IsList(g.coordinates.v[1]) THEN g
         ELSE [g EXCEPT !.coordinates =
                          FirstReplaced(g.coordinates,
                                        RingsAfterShrink(g.coordinates.v[1], factor))]
    ELSE g

(***************************************************************************)
(* The inputs of the model.                                                *)
(***************************************************************************)
\* the i-th corner of the walk (0,0), (4,0), (4,4), (0,4), (0,0), ...
SquareXY(i) ==
    LET k == (i - 1) % 4
    IN  <<PyInt(IF k \in {1, 2} THEN 4 ELSE 0), PyInt(IF k \in {2, 3} THEN 4 ELSE 0)>>

\* the collinear walk (0,0), (1,0), (2,0), ...
LineXY(i) == <<PyInt(i - 1), PyInt(0)>>

\* the walk (1,1), (2,1), (1,2), (1,1), ... round a triangle inside the square
HoleXY(i) ==
    LET k == (i - 1) % 3
    IN  <<PyInt(IF k = 1 THEN 2 ELSE 1), PyInt(IF k = 2 THEN 2 ELSE 1)>>

\* the same triangle walked the other way round, in floats: (0.5,0.5), (0.5,1.5), (1.5,0.5), ...
HalfXY(i) ==
    LET k == (i - 1) % 3
    IN  <<PyFloat(IF k = 2 THEN 3 ELSE 1, 2), PyFloat(IF k = 1 THEN 3 ELSE 1, 2)>>

XY(path, i) ==
    CASE path = "square" -> SquareXY(i)
      [] path = "line" -> LineXY(i)
      [] path = "hole" -> HoleXY(i)
      [] OTHER -> HalfXY(i)

\* a coordinate of c components at (x, y): -1 stands for a coordinate that is
\* no list at all (None)
Coord(xy, c, z) ==
    IF c < 0 THEN None
    ELSE PyList(SubSeq(<<xy[1], xy[2], z>>, 1, c))

\* the ring of the first n points of a walk, point i with comps[i] components;
\* the Z values are all 7, or 11, 12, ... when zs = "distinct"
MkRing(path, n, comps, zs) ==
    PyList([i \in 1..n |->
              Coord(XY(path, i), comps[i], PyInt(IF zs = "distinct" THEN 10 + i ELSE 7))])

\* all points 2D, all points 3D, or one point of 0, 1 or 3 components or None
OneOdd(n) == {[j \in 1..n |-> IF j = i THEN c ELSE 2] : i \in 1..n, c \in {-1, 0, 1, 3}}

RingsOf(path, lens) ==
    UNION {   {MkRing(path, n, [j \in 1..n |-> 2], "same"),
               MkRing(path, n, [j \in 1..n |-> 3], "same"),
               MkRing(path, n, [j \in 1..n |-> 3], "distinct")}
           \cup {MkRing(path, n, cs, "same") : cs \in OneOdd(n)}
           : n \in lens}

Flat(path, n) == MkRing(path, n, [j \in 1..n |-> 2], "same")

\* the closed square of the spec's scenario: [[0,0],[4,0],[4,4],[0,4],[0,0]]
ClosedSquare == Flat("square", 5)

OuterRings ==
    RingsOf("square", 0..MaxRingLen)
    \cup {Flat("line", n) : n \in 3..MaxRingLen}
    \cup {Flat("half", 4), Flat("hole", 3), None}

HoleRings ==
    RingsOf("hole", 2..4) \cup {Flat("half", 4), Flat("hole", 0), None}

\* a few holes: closed, open, too short, 3D, with a 1-component coordinate, no list
FewHoles ==
    {Flat("hole", 4), Flat("hole", 3), Flat("hole", 2),
     MkRing("hole", 4, [j \in 1..4 |-> 3], "distinct"),
     MkRing("hole", 4, [j \in 1..4 |-> IF j = 2 THEN 1 ELSE 2], "same"),
     None}

\* other outer rings of polygons with a hole: open, 3D, with a 1-component coordinate
OtherOuters ==
    {Flat("square", 4),
     MkRing("square", 5, [j \in 1..5 |-> 3], "distinct"),
     MkRing("square", 5, [j \in 1..5 |-> IF j = 2 THEN 1 ELSE 2], "same")}

\* values of a polygon's coordinates: not a list, an empty list, 1 to 3 rings
Polygons ==
    {None, PyInt(7), PyList(<<>>)}
    \cup {PyList(<<o>>) : o \in OuterRings}
    \cup {PyList(<<ClosedSquare, h>>) : h \in HoleRings}
    \cup {PyList(<<o, h>>) : o \in OtherOuters, h \in FewHoles}
    \cup {PyList(<<ClosedSquare, Flat("hole", 4), h>>) :
             h \in {Flat("half", 4), Flat("hole", 2),
                    MkRing("hole", 4, [j \in 1..4 |-> 3], "distinct")}}

\* a second part that differs from every first part in its text and its dimension
OtherPart == PyList(<<MkRing("line", 3, [j \in 1..3 |-> 3], "distinct")>>)

MultiPolygons ==
    {None, PyList(<<>>)}
    \cup {PyList(<<p>>) : p \in Polygons}
    \cup {PyList(<<p, OtherPart>>) : p \in Polygons}
    \cup {PyList(<<PyList(<<ClosedSquare>>), q>>) : q \in {None, PyList(<<>>)}}

Geometries ==
    {[type |-> PyStr("Polygon"), coordinates |-> c] : c \in Polygons}
    \cup {[type |-> PyStr("MultiPolygon"), coordinates |-> c] : c \in MultiPolygons}
    \cup {[type |-> ty, coordinates |-> c] :
             ty \in {None, PyStr(""), PyStr("Point")},
             c \in {None, PyList(<<PyInt(1), PyInt(2)>>), PyList(<<ClosedSquare>>),
                    PyList(<<PyList(<<ClosedSquare>>)>>)}}

Policies == {"first", "error"}

\* -1.0, 0.0, 1.0, ..., and 0.5
Factors == {PyFloat(k, 1) : k \in -1..MaxFactor} \cup {PyFloat(1, 2)}

(***************************************************************************)
(* The state machine: the arguments are chosen, then the two converters    *)
(* are called on them in any order.  The plain converter has no assignment *)
(* to an item of a list or of a dict; the shrunk converter has one, and    *)
(* leaves geometry as GeometryAfterShrunk says.  The policy is a str and   *)
(* the factor a float: immutable values.                                   *)
(***************************************************************************)
Init ==
    /\ geometry \in Geometries
    /\ on_multipolygon \in Policies
    /\ shrink_factor \in Factors
    /\ calls = <<>>

CallPlain ==
    /\ Len(calls) < MaxCalls
    /\ calls' = Append(calls, [op |-> "plain",
                               res |-> geojson_to_polygon_wkt(geometry, on_multipolygon),
                               shrunk_rings |-> Unbound])
    /\ UNCHANGED <<geometry, on_multipolygon, shrink_factor>>

CallShrunk ==
    /\ Len(calls) < MaxCalls
    /\ calls' = Append(calls, [op |-> "shrunk"]
                               @@ ShrunkCall(geometry, on_multipolygon, shrink_factor))
    /\ geometry' = GeometryAfterShrunk(geometry, on_multipolygon, shrink_factor)
    /\ UNCHANGED <<on_multipolygon, shrink_factor>>

Next == CallPlain \/ CallShrunk

Spec == Init /\ [][Next]_vars

(***************************************************************************)
(* Vocabulary of the properties.                                           *)
(***************************************************************************)
\* the two error kinds of the specification: every raise statement of the
\* code raises ValueError; InvalidArgument is the one about shrink_factor
InvalidArgument(o) == ~o.ok /\ o.exc = "ValueError" /\ o.msg = MsgFactor

InvalidGeometry(o) == ~o.ok /\ o.exc = "ValueError" /\ o.msg # MsgFactor

\* same returned text, or the same exception of the same kind
SameOutcome(a, b) ==
    IF a.ok \/ b.ok THEN a = b
    ELSE /\ a.exc = b.exc
         /\ InvalidArgument(a) <=> InvalidArgument(b)

Indices == 1..Len(calls)

IsPolygon == geometry.type = PyStr("Polygon")

IsMultiPolygon == geometry.type = PyStr("MultiPolygon")

\* the parts of a MultiPolygon whose coordinates are a list
Parts == geometry.coordinates.v

\* a polygon is selected: the coordinates of a Polygon, or the first part of a
\* MultiPolygon unless the policy refuses it
HasSelected ==
    \/ IsPolygon
    \/ /\ IsMultiPolygon
       /\ IsList(geometry.coordinates)
       /\ Len(Parts) >= 1
       /\ on_multipolygon = "error" => Len(Parts) = 1

Selected == IF IsPolygon THEN geometry.coordinates ELSE Parts[1]

\* a non-empty list of rings is selected
SelectedRings == HasSelected /\ IsList(Selected) /\ Len(Selected.v) >= 1

AsPolygon(rings) == [type |-> PyStr("Polygon"), coordinates |-> rings]

Positive(f) == NumLt(PyInt(0), f)

(***************************************************************************)
(* C1: when the geometry's type is missing or is neither Polygon nor       *)
(* MultiPolygon, every call of either converter fails with InvalidGeometry *)
(* (and so returns no WKT), whatever the coordinates, the policy and the   *)
(* shrink factor.                                                          *)
(***************************************************************************)
C1_UnsupportedTypeFails ==
    (~IsPolygon /\ ~IsMultiPolygon) =>
        \A i \in Indices : InvalidGeometry(calls[i].res)

\* both converters were called on a Point, with a shrink factor that is itself invalid
C1_Witness ==
    /\ geometry.type = PyStr("Point")
    /\ IsList(geometry.coordinates)
    /\ ~Positive(shrink_factor)
    /\ Len(calls) = 2 /\ calls[1].op = "plain" /\ calls[2].op = "shrunk"
    /\ InvalidGeometry(calls[1].res) /\ InvalidGeometry(calls[2].res)

(***************************************************************************)
(* C2: on a MultiPolygon with a list of parts, under policy "error" every  *)
(* call fails with InvalidGeometry unless there is exactly one part; in    *)
(* every other case with at least one part the outcome of each call is the *)
(* outcome of the same converter on a Polygon whose coordinates are the    *)
(* first part (so the later parts have no influence).                      *)
(***************************************************************************)
C2_MultiPolygonSelection ==
    (IsMultiPolygon /\ IsList(geometry.coordinates)) =>
        \A i \in Indices :
            IF on_multipolygon = "error" /\ Len(Parts) # 1
            THEN InvalidGeometry(calls[i].res)
            ELSE Len(Parts) >= 1 =>
                   SameOutcome(calls[i].res,
                               IF calls[i].op = "plain"
                               THEN geojson_to_polygon_wkt(AsPolygon(Parts[1]), on_multipolygon)
                               ELSE geojson_to_shrunk_polygon_wkt(AsPolygon(Parts[1]),
                                                                  on_multipolygon, shrink_factor))

\* policy "first" on two parts: both converters returned the text of the first part
C2_Witness ==
    /\ IsMultiPolygon /\ IsList(geometry.coordinates) /\ Len(Parts) = 2
    /\ on_multipolygon = "first"
    /\ Parts[1] # Parts[2]
    /\ Len(calls) = 2 /\ calls[1].op = "plain" /\ calls[2].op = "shrunk"
    /\ calls[1].res.ok /\ calls[2].res.ok

(***************************************************************************)
(* C3: when a non-empty list of rings is selected and shrink_factor <= 0,  *)
(* the shrunk converter fails with InvalidArgument, whatever the rings     *)
(* hold.                                                                   *)
(***************************************************************************)
C3_NonPositiveFactorIsInvalidArgument ==
    (SelectedRings /\ ~Positive(shrink_factor)) =>
        \A i \in Indices : calls[i].op = "shrunk" => InvalidArgument(calls[i].res)

\* factor 0 on a polygon whose only ring is too short and starts with a
\* coordinate of one component
C3_Witness ==
    /\ SelectedRings
    /\ shrink_factor = PyFloat(0, 1)
    /\ IsList(Selected.v[1]) /\ Len(Selected.v[1].v) = 2
    /\ IsList(Selected.v[1].v[1]) /\ Len(Selected.v[1].v[1].v) = 1
    /\ \E i \in Indices : calls[i].op = "shrunk" /\ InvalidArgument(calls[i].res)

\* the list rs holds a list ring that holds a coordinate satisfying P
SomeCoord(rs, P(_)) ==
    \E r \in 1..Len(rs) :
        /\ IsList(rs[r])
        /\ \E j \in 1..Len(rs[r].v) : P(rs[r].v[j])

FewerThan2(c) == IsList(c) /\ Len(c.v) < 2

ThreeOrMore(c) == IsList(c) /\ Len(c.v) >= 3

(***************************************************************************)
(* C4: with shrink_factor > 0, when some coordinate of some ring of the    *)
(* selected polygon (the outer ring included) has fewer than 2 components, *)
(* the shrunk converter fails with InvalidGeometry.                        *)
(***************************************************************************)
C4_ShortCoordinateIsInvalidGeometry ==
    (SelectedRings /\ Positive(shrink_factor) /\ SomeCoord(Selected.v, FewerThan2)) =>
        \A i \in Indices : calls[i].op = "shrunk" => InvalidGeometry(calls[i].res)

(***************************************************************************)
(* C5: with shrink_factor > 0, when the outer ring or a hole of the        *)
(* selected polygon has fewer than 3 coordinates, the shrunk converter     *)
(* fails with InvalidGeometry.                                             *)
(***************************************************************************)
C5_ShortRingIsInvalidGeometry ==
    (/\ SelectedRings
     /\ Positive(shrink_factor)
     /\ \E r \in 1..Len(Selected.v) : IsList(Selected.v[r]) /\ Len(Selected.v[r].v) < 3) =>
        \A i \in Indices : calls[i].op = "shrunk" => InvalidGeometry(calls[i].res)

(***************************************************************************)
(* C6: every returned text starts with "POLYGON Z" if some coordinate of   *)
(* the rings being serialized (the selected rings for the plain converter, *)
(* the scaled rings for the shrunk one) has 3 or more components, and with *)
(* "POLYGON (" otherwise.                                                  *)
(***************************************************************************)
Serialized(i) == IF calls[i].op = "plain" THEN Selected ELSE calls[i].shrunk_rings

C6_DimensionalityPrefix ==
    \A i \in Indices :
        calls[i].res.ok =>
            SubSeq(calls[i].res.wkt, 1, 9) =
                (IF SomeCoord(Serialized(i).v, ThreeOrMore) THEN "POLYGON Z" ELSE "POLYGON (")

\* a 2D outer ring and a hole with exactly one 3-component coordinate: both
\* converters returned POLYGON Z
C6_Witness ==
    /\ SelectedRings /\ Len(Selected.v) = 2
    /\ ~SomeCoord(<<Selected.v[1]>>, ThreeOrMore)
    /\ IsList(Selected.v[2])
    /\ Cardinality({j \in 1..Len(Selected.v[2].v) : ThreeOrMore(Selected.v[2].v[j])}) = 1
    /\ Len(calls) = 2 /\ calls[1].op = "plain" /\ calls[2].op = "shrunk"
    /\ calls[1].res.ok /\ calls[2].res.ok
    /\ SubSeq(calls[1].res.wkt, 1, 9) = "POLYGON Z"
    /\ SubSeq(calls[2].res.wkt, 1, 9) = "POLYGON Z"

(***************************************************************************)
(* C7: when the shrunk converter returns, every coordinate (x, y) of every *)
(* ring, holes included, has become (Cx + (x - Cx)/f, Cy + (y - Cy)/f),    *)
(* with (Cx, Cy) the centroid of the outer ring; and the closed square     *)
(* [[0,0],[4,0],[4,4],[0,4],[0,0]] with f = 2 has centroid (2, 2) and      *)
(* yields exactly POLYGON ((1 1, 3 1, 3 3, 1 3, 1 1)).                     *)
(***************************************************************************)
\* Cx + (x - Cx)/f
ScaledAbout(x, c, f) == NumAdd(c, NumDiv(NumSub(x, c), f))

C7_ScaledAboutOuterCentroid ==
    \A i \in Indices :
        (calls[i].op = "shrunk" /\ calls[i].res.ok) =>
            LET rings == Selected.v
                out == calls[i].shrunk_rings.v
                c == outer_ring_centroid_xy(rings[1])
            IN  /\ Len(out) = Len(rings)
                /\ \A r \in 1..Len(rings) :
                     /\ Len(out[r].v) = Len(rings[r].v)
                     /\ \A j \in 1..Len(rings[r].v) :
                          /\ NumEq(out[r].v[j].v[1],
                                   ScaledAbout(rings[r].v[j].v[1], c.cx, shrink_factor))
                          /\ NumEq(out[r].v[j].v[2],
                                   ScaledAbout(rings[r].v[j].v[2], c.cy, shrink_factor))
                /\ (rings = <<ClosedSquare>> /\ shrink_factor = PyFloat(2, 1)) =>
                     /\ NumEq(c.cx, PyInt(2)) /\ NumEq(c.cy, PyInt(2))
                     /\ calls[i].res.wkt = "POLYGON ((1 1, 3 1, 3 3, 1 3, 1 1))"

\* a polygon with a hole whose own centroid is not the outer ring's, shrunk by 2
C7_Witness ==
    /\ SelectedRings /\ Len(Selected.v) = 2
    /\ shrink_factor = PyFloat(2, 1)
    /\ \E i \in Indices :
         /\ calls[i].op = "shrunk" /\ calls[i].res.ok
         /\ ~NumEq(outer_ring_centroid_xy(Selected.v[2]).cx,
                   outer_ring_centroid_xy(Selected.v[1]).cx)

(***************************************************************************)
(* C8: when the shrunk converter returns, every output coordinate has the  *)
(* Z of the input coordinate at the same position, and has no Z where the  *)
(* input has none.                                                         *)
(***************************************************************************)
C8_ZPassesThrough ==
    \A i \in Indices :
        (calls[i].op = "shrunk" /\ calls[i].res.ok) =>
            LET rings == Selected.v
                out == calls[i].shrunk_rings.v
            IN  \A r \in 1..Len(rings) : \A j \in 1..Len(rings[r].v) :
                    LET pin == rings[r].v[j].v
                        pout == out[r].v[j].v
                    IN  IF Len(pin) >= 3
                        THEN Len(pout) = 3 /\ pout[3] = pin[3]
                        ELSE Len(pout) = 2

(***************************************************************************)
(* C9: when the shrunk converter returns, every ring whose first and last  *)
(* input coordinates are equal has its first and last output coordinates   *)
(* exactly equal, and every ring whose first and last input coordinates    *)
(* differ in X or Y has first and last output coordinates that differ in   *)
(* X or Y.                                                                 *)
(***************************************************************************)
\* Python == on two coordinates
CoordEq(a, b) == Len(a.v) = Len(b.v) /\ \A k \in 1..Len(a.v) : NumEq(a.v[k], b.v[k])

SameXY(a, b) == NumEq(a.v[1], b.v[1]) /\ NumEq(a.v[2], b.v[2])

C9_ClosurePreserved ==
    \A i \in Indices :
        (calls[i].op = "shrunk" /\ calls[i].res.ok) =>
            LET rings == Selected.v
                out == calls[i].shrunk_rings.v
            IN  \A r \in 1..Len(rings) :
                    LET pin == rings[r].v
                        pout == out[r].v
                    IN  /\ CoordEq(pin[1], pin[Len(pin)]) => pout[1] = pout[Len(pout)]
                        /\ ~SameXY(pin[1], pin[Len(pin)]) => ~SameXY(pout[1], pout[Len(pout)])

\* a closed outer ring and an open hole, shrunk: the outer ring stayed closed,
\* the hole stayed open
C9_Witness ==
    /\ SelectedRings /\ Len(Selected.v) = 2
    /\ \E i \in Indices :
         /\ calls[i].op = "shrunk" /\ calls[i].res.ok
         /\ LET in1 == Selected.v[1].v
                in2 == Selected.v[2].v
                out1 == calls[i].shrunk_rings.v[1].v
                out2 == calls[i].shrunk_rings.v[2].v
            IN  /\ CoordEq(in1[1], in1[Len(in1)]) /\ out1[1] = out1[Len(out1)]
                /\ ~SameXY(in2[1], in2[Len(in2)]) /\ ~SameXY(out2[1], out2[Len(out2)])

(***************************************************************************)
(* C10: on a Polygon whose coordinates are not a list, or are an empty     *)
(* list, every call of either converter fails with InvalidGeometry.        *)
(***************************************************************************)
C10_PolygonNeedsRings ==
    (IsPolygon /\ ~(IsList(geometry.coordinates) /\ Len(geometry.coordinates.v) >= 1)) =>
        \A i \in Indices : InvalidGeometry(calls[i].res)

\* every ring of the selected polygon is a list of 3 or more coordinates, each
\* a list of 2 or more components
ValidPolygon ==
    /\ SelectedRings
    /\ \A r \in 1..Len(Selected.v) :
         /\ ValidRing(Selected.v[r])
         /\ \A j \in 1..Len(Selected.v[r].v) : ValidPoint(Selected.v[r].v[j])

\* the components of a coordinate from the third on
ZPart(c) == SubSeq(c.v, 3, Len(c.v))

(***************************************************************************)
(* C11: on a valid polygon with shrink_factor = 1 the shrunk converter     *)
(* returns; every output coordinate has the X and the Y of the input       *)
(* coordinate at the same position and the same Z (or none where the input *)
(* has none); and the returned text is the text the plain converter        *)
(* returns for the same geometry.                                          *)
(***************************************************************************)
C11_RoundTripIdentity ==
    (ValidPolygon /\ shrink_factor = PyFloat(1, 1)) =>
        \A i \in Indices :
            calls[i].op = "shrunk" =>
                /\ calls[i].res.ok
                /\ LET rings == Selected.v
                       out == calls[i].shrunk_rings.v
                   IN  /\ Len(out) = Len(rings)
                       /\ \A r \in 1..Len(rings) :
                            /\ Len(out[r].v) = Len(rings[r].v)
                            /\ \A j \in 1..Len(rings[r].v) :
                                 /\ SameXY(out[r].v[j], rings[r].v[j])
                                 /\ ZPart(out[r].v[j]) = ZPart(rings[r].v[j])
                /\ calls[i].res = geojson_to_polygon_wkt(geometry, on_multipolygon)

(***************************************************************************)
(* Reading a returned text back: the rings are the parenthesized groups    *)
(* inside the outer parentheses, and the coordinates of a ring are the     *)
(* pieces between its ", " separators (as str.split does: the empty text   *)
(* is one empty piece).                                                    *)
(***************************************************************************)
\* the positions from i on where the text pat occurs in s
Hits(s, pat, i) == {k \in i..(Len(s) - Len(pat) + 1) : SubSeq(s, k, k + Len(pat) - 1) = pat}

First(hits) == IF hits = {} THEN 0 ELSE CHOOSE k \in hits : \A j \in hits : k <= j

\* the position of the first occurrence of the text pat in s from position i
\* on, or 0 if there is none
Find(s, pat, i) == First(Hits(s, pat, i))

\* s.split(sep)
RECURSIVE Split(_, _)
SplitAt(s, sep, k) ==
    IF k = 0 THEN <<s>>
    ELSE <<SubSeq(s, 1, k - 1)>> \o Split(SubSeq(s, k + Len(sep), Len(s)), sep)

Split(s, sep) == SplitAt(s, sep, Find(s, sep, 1))

\* the texts between each "(" and the next ")" of s
RECURSIVE Groups(_)
GroupFrom(s, open, close) ==
    IF open = 0 \/ close = 0 THEN <<>>
    ELSE <<SubSeq(s, open + 1, close - 1)>> \o Groups(SubSeq(s, close + 1, Len(s)))

Groups(s) == GroupFrom(s, Find(s, "(", 1), Find(s, ")", 1))

\* the coordinate texts of the rings of a returned text: what follows the
\* first "(" up to the last character
RingTexts(wkt) ==
    LET inner == Groups(SubSeq(wkt, Find(wkt, "(", 1) + 1, Len(wkt) - 1))
    IN  [r \in 1..Len(inner) |-> Split(inner[r], ", ")]

(***************************************************************************)
(* C12: every returned text holds one ring per ring of the selected        *)
(* polygon, and each ring of the text holds one coordinate per coordinate  *)
(* of the input ring: the j-th coordinate of the r-th ring of the text is  *)
(* the text of the j-th coordinate of the r-th input ring (for the shrunk  *)
(* converter, of its scaled image).  So no ring or coordinate is dropped,  *)
(* added, reordered or reversed, and no closing coordinate is appended.    *)
(***************************************************************************)
C12_StructurePreserved ==
    \A i \in Indices :
        calls[i].res.ok =>
            LET rings == Selected.v
                ser == Serialized(i).v
                texts == RingTexts(calls[i].res.wkt)
                c == outer_ring_centroid_xy(rings[1])
            IN  /\ Len(texts) = Len(rings)
                /\ \A r \in 1..Len(rings) :
                     IF rings[r].v = <<>> THEN texts[r] = <<"">>
                     ELSE /\ Len(texts[r]) = Len(rings[r].v)
                          /\ \A j \in 1..Len(rings[r].v) :
                               /\ texts[r][j] = fmt_coord(ser[r].v[j]).s
                               /\ calls[i].op = "shrunk" =>
                                    /\ NumEq(ser[r].v[j].v[1],
                                             ScaledAbout(rings[r].v[j].v[1], c.cx, shrink_factor))
                                    /\ NumEq(ser[r].v[j].v[2],
                                             ScaledAbout(rings[r].v[j].v[2], c.cy, shrink_factor))

\* a closed outer ring of 5 coordinates and an open hole of 3, serialized by
\* both converters: the texts hold 5 and 3 coordinates
C12_Witness ==
    /\ SelectedRings /\ Len(Selected.v) = 2
    /\ Len(calls) = 2 /\ calls[1].op = "plain" /\ calls[2].op = "shrunk"
    /\ calls[1].res.ok /\ calls[2].res.ok
    /\ shrink_factor = PyFloat(2, 1)
    /\ Len(Selected.v[2].v) = 3
    /\ ~SameXY(Selected.v[2].v[1], Selected.v[2].v[3])
    /\ \A i \in Indices :
         /\ Len(RingTexts(calls[i].res.wkt)) = 2
         /\ Len(RingTexts(calls[i].res.wkt)[1]) = 5
         /\ Len(RingTexts(calls[i].res.wkt)[2]) = 3

Cross(p, q) == NumSub(NumMul(p.v[1], q.v[2]), NumMul(q.v[1], p.v[2]))

\* SUM over i = from..n-1 of cross_i, weighted by (p_i[k] + p_i+1[k]) when
\* k is 1 or 2
RECURSIVE PairSum(_, _, _)
PairSum(pts, from, k) ==
    IF from >= Len(pts) THEN PyInt(0)
    ELSE NumAdd(IF k = 0 THEN Cross(pts[from], pts[from + 1])
                ELSE NumMul(NumAdd(pts[from].v[k], pts[from + 1].v[k]),
                            Cross(pts[from], pts[from + 1])),
                PairSum(pts, from + 1, k))

RECURSIVE PointSum(_, _, _)
PointSum(pts, from, k) ==
    IF from > Len(pts) THEN PyInt(0)
    ELSE NumAdd(pts[from].v[k], PointSum(pts, from + 1, k))

ZeroArea(pts) == NumEq(PairSum(pts, 1, 0), PyInt(0))

\* component k (1 for X, 2 for Y) of the centroid
CentroidComp(pts, k) ==
    IF ZeroArea(pts) THEN NumDiv(PointSum(pts, 1, k), PyInt(Len(pts)))
    ELSE NumDiv(PairSum(pts, 1, k), NumMul(PyInt(3), PairSum(pts, 1, 0)))

\* the ring (0,0), (1,0), (2,0)
CollinearRing == Flat("line", 3)

====
